---------------------------- MODULE Spec2Model ----------------------------
(***************************************************************************)
(* A model of scripts/sync/process_assistants.py: the assistant sync       *)
(* engine (fingerprint, diff, mutation planner, executor) and the run that *)
(* drives it against a remote store; and of the recommendation history of  *)
(* scripts/discovery/discover_repos.py.                                    *)
(*                                                                         *)
(* A Python dict is a function from the names of the fields it holds to    *)
(* their values: the code reads a dict only by key, so the order of its   *)
(* fields is not part of the value.  A Python list is a sequence.  A dict  *)
(* used as an ordered map (yaml_map, current_map) is a sequence of entries *)
(* with distinct keys, in insertion order.                                 *)
(***************************************************************************)
EXTENDS Integers, Sequences, FiniteSets, TLC

VARIABLES
    remote,              \* the records the remote store holds, in order
    artifact,            \* failed_sync_operations.json: its content, or None
    pc,                  \* where the run is: load, fetch, detect, sync, exit,
                         \* nofile (the declared-state file is missing) or
                         \* aborted (run_sync caught an exception of a step)
    yaml_assistants,     \* run_sync: the declared records
    current_assistants,  \* run_sync: the fetched records
    changes,             \* run_sync: the result of detect_changes
    operations,          \* sync_to_cloudflare: the planned operations
    success,             \* run_sync: its result
    requests,            \* the requests this run has sent to the remote store,
                         \* each with whether it succeeded
    wrote,               \* whether this run wrote the recovery artifact
    run,                 \* the number of runs finished before this one
    hashIn,              \* fingerprint check: a pair of records
    hashOut,             \* fingerprint check: their fingerprints
    dry_run,             \* main: args.dry_run
    processed_repos,     \* discovery: self.processed_repos
    state_path,          \* discovery: self.state_file, the components of the path
    state_file,          \* discovery: the state file: whether it exists, its data
    recommendations,     \* discovery: what the last discover_category returned
    recommended,         \* discovery: how often each URL has been returned
    category             \* discovery: the categories this run has searched

discoveryVars == << processed_repos, state_path, state_file, recommendations,
                   recommended, category >>

vars == << remote, artifact, pc, yaml_assistants, current_assistants, changes,
           operations, success, requests, wrote, run, hashIn, hashOut,
           dry_run, discoveryVars >>

-----------------------------------------------------------------------------
(* Values *)

\* Python's None, where a string is expected (dict.get without a default).
None == "None"

\* datetime.utcnow().isoformat(): a non-empty string.
Now == "now"

\* bool(v) of a string or None.
Truthy(v) == v # None /\ v # ""

\* d.get(k): None when the dict does not hold k.
Get(d, k) == IF k \in DOMAIN d THEN d[k] ELSE None

\* d.get(k, default)
GetOr(d, k, default) == IF k \in DOMAIN d THEN d[k] ELSE default

\* A dict display that unpacks d and then sets the fields of over: over wins.
Merge(d, over) ==
    [k \in DOMAIN d \cup DOMAIN over |-> IF k \in DOMAIN over THEN over[k] ELSE d[k]]

\* The elements of a list.
Range(s) == { s[i] : i \in 1..Len(s) }

\* A value that is not a mapping (a YAML or JSON string, as the element
\* "foo" of assistants: [foo, bar]) where the code expects a dict. It is
\* written as a record with the one field scalar, which no dict of the model
\* holds; a string in the place of a list is the list of its characters.
Scalar(text) == [ scalar |-> text ]

\* v has the method get: it is a dict.
IsMapping(v) == "scalar" \notin DOMAIN v

\* Every element of a list is a dict.
AllMappings(assistants) == \A i \in 1..Len(assistants) : IsMapping(assistants[i])

\* A JSON null in the version field of a stored record. Versions are
\* compared and added as numbers, so null is written as a number that no
\* version takes.
NullVersion == -1

-----------------------------------------------------------------------------
(* compute_assistant_hash *)

\* A fingerprint that leaves the author out.
key_fields_without_author == << "name", "description", "url", "category", "tags" >>

key_fields == << "name", "description", "url", "category", "tags", "author" >>

\* The fields of key_fields, sorted as json.dumps(sort_keys=True) writes them.
sorted_key_fields == << "author", "category", "description", "name", "tags", "url" >>

\* normalized = {k: assistant.get(k) for k in key_fields if k in assistant}
Normalized(assistant) ==
    [k \in { key_fields[i] : i \in 1..Len(key_fields) } \cap DOMAIN assistant
        |-> assistant[k]]

\* json.dumps(d, sort_keys=True) of a dict over key_fields: its items, one
\* after the other, in the order of the sorted keys.
JsonDumpsSorted(d) ==
    LET present == SelectSeq(sorted_key_fields, LAMBDA k : k \in DOMAIN d)
    IN  [i \in 1..Len(present) |-> [key |-> present[i], value |-> d[present[i]]]]

compute_assistant_hash(assistant) == JsonDumpsSorted(Normalized(assistant))

-----------------------------------------------------------------------------
(* detect_changes *)

\* key = assistant.get('name') or assistant.get('id')
IdentityKey(assistant) ==
    IF Truthy(Get(assistant, "name")) THEN assistant["name"] ELSE Get(assistant, "id")

\* A liveness test that forgets dateDeleted.
IsActiveCurrent_IgnoresDateDeleted(assistant) == GetOr(assistant, "isActive", TRUE)

\* assistant.get('isActive', True) and not assistant.get('dateDeleted')
IsActiveCurrent(assistant) ==
    GetOr(assistant, "isActive", TRUE) /\ ~Truthy(Get(assistant, "dateDeleted"))

\* key in m
HasKey(m, key) == \E i \in 1..Len(m) : m[i].key = key

\* m[key]
Lookup(m, key) == m[CHOOSE i \in 1..Len(m) : m[i].key = key].val

\* An assignment after which the key is the last of the dict.
Put_MovesToEnd(m, key, val) ==
    Append(SelectSeq(m, LAMBDA e : e.key # key), [key |-> key, val |-> val])

\* m[key] = val: a key the dict holds keeps its place and takes the new value.
Put(m, key, val) ==
    IF HasKey(m, key)
    THEN [i \in 1..Len(m) |-> IF m[i].key = key THEN [key |-> key, val |-> val] ELSE m[i]]
    ELSE Append(m, [key |-> key, val |-> val])

\* A loop that enters every declared record, with or without a key.
RECURSIVE YamlMap_KeepsKeyless(_)
YamlMap_KeepsKeyless(assistants) ==
    IF assistants = << >> THEN << >>
    ELSE LET n == Len(assistants)
             m == YamlMap_KeepsKeyless(SubSeq(assistants, 1, n - 1))
         IN  Put(m, IdentityKey(assistants[n]), assistants[n])

\* The loop that builds yaml_map: a record with no key is passed over.
RECURSIVE YamlMap(_)
YamlMap(assistants) ==
    IF assistants = << >> THEN << >>
    ELSE LET n == Len(assistants)
             m == YamlMap(SubSeq(assistants, 1, n - 1))
             key == IdentityKey(assistants[n])
         IN  IF Truthy(key) THEN Put(m, key, assistants[n]) ELSE m

\* The loop that builds current_map: only the active assistants.
RECURSIVE CurrentMap(_)
CurrentMap(assistants) ==
    IF assistants = << >> THEN << >>
    ELSE LET n == Len(assistants)
             m == CurrentMap(SubSeq(assistants, 1, n - 1))
             key == IdentityKey(assistants[n])
         IN  IF IsActiveCurrent(assistants[n]) /\ Truthy(key)
             THEN Put(m, key, assistants[n]) ELSE m

NewAssistants(yaml_map, current_map) ==
    LET sel == SelectSeq(yaml_map, LAMBDA e : ~HasKey(current_map, e.key))
    IN  [i \in 1..Len(sel) |-> sel[i].val]

UpdatedAssistants(yaml_map, current_map) ==
    LET sel == SelectSeq(yaml_map, LAMBDA e :
                   /\ HasKey(current_map, e.key)
                   /\ compute_assistant_hash(e.val)
                        # compute_assistant_hash(Lookup(current_map, e.key)))
    IN  [i \in 1..Len(sel) |-> [old |-> Lookup(current_map, sel[i].key), new |-> sel[i].val]]

UnchangedAssistants(yaml_map, current_map) ==
    LET sel == SelectSeq(yaml_map, LAMBDA e :
                   /\ HasKey(current_map, e.key)
                   /\ compute_assistant_hash(e.val)
                        = compute_assistant_hash(Lookup(current_map, e.key)))
    IN  [i \in 1..Len(sel) |-> sel[i].val]

\* A deletion scan that forgets to test the declared map.
DeletedAssistants_AllCurrent(yaml_map, current_map) ==
    [i \in 1..Len(current_map) |-> current_map[i].val]

DeletedAssistants(yaml_map, current_map) ==
    LET sel == SelectSeq(current_map, LAMBDA e : ~HasKey(yaml_map, e.key))
    IN  [i \in 1..Len(sel) |-> sel[i].val]

detect_changes(yaml, current) ==
    LET yaml_map == YamlMap(yaml)
        current_map == CurrentMap(current)
    IN  [ new       |-> NewAssistants(yaml_map, current_map),
          updated   |-> UpdatedAssistants(yaml_map, current_map),
          deleted   |-> DeletedAssistants(yaml_map, current_map),
          unchanged |-> UnchangedAssistants(yaml_map, current_map) ]

NoChanges == [ new |-> << >>, updated |-> << >>, deleted |-> << >>, unchanged |-> << >> ]

-----------------------------------------------------------------------------
(* sync_to_cloudflare: the planner *)

\* An insert in which the declared record's own fields win.
InsertNew_DeclaredWins(assistant) ==
    [ action |-> "insert",
      data   |-> Merge([isActive |-> TRUE, dateAdded |-> Now, version |-> 1], assistant) ]

\* The insert of a new assistant.
InsertNew(assistant) ==
    [ action |-> "insert",
      data   |-> Merge(assistant, [isActive |-> TRUE, dateAdded |-> Now, version |-> 1]) ]

\* The update that marks the old version of an updated assistant inactive.
Deactivate(update) ==
    [ action |-> "update",
      id     |-> Get(update.old, "id"),
      data   |-> [isActive |-> FALSE, dateDeactivated |-> Now] ]

\* The insert of the new version of an updated assistant.
InsertVersion(update) ==
    [ action |-> "insert",
      data   |-> Merge(update.new,
                       [ isActive        |-> TRUE,
                         dateAdded       |-> Now,
                         version         |-> GetOr(update.old, "version", 0) + 1,
                         previousVersion |-> Get(update.old, "id") ]) ]

\* A hard delete in place of the soft one.
SoftDelete_Removes(assistant) ==
    [ action |-> "delete",
      id     |-> Get(assistant, "id"),
      data   |-> [dateDeleted |-> Now, isActive |-> FALSE] ]

\* A soft delete that leaves the record active.
SoftDelete_StaysActive(assistant) ==
    [ action |-> "update",
      id     |-> Get(assistant, "id"),
      data   |-> [dateDeleted |-> Now] ]

\* The update that marks a deleted assistant.
SoftDelete(assistant) ==
    [ action |-> "update",
      id     |-> Get(assistant, "id"),
      data   |-> [dateDeleted |-> Now, isActive |-> FALSE] ]

NewOps(new) == [i \in 1..Len(new) |-> InsertNew(new[i])]

\* Two operations for each updated assistant, the update and then the insert.
UpdatedOps(updated) ==
    [i \in 1..(2 * Len(updated)) |->
        IF i % 2 = 1 THEN Deactivate(updated[(i + 1) \div 2])
                     ELSE InsertVersion(updated[i \div 2])]

DeletedOps(deleted) == [i \in 1..Len(deleted) |-> SoftDelete(deleted[i])]

\* The loop over the updated assistants raises a TypeError at line 195,
\* old.get('version', 0) + 1, when the old record holds version: null.
PlanRaises(ch) ==
    \E i \in 1..Len(ch.updated) :
        /\ "version" \in DOMAIN ch.updated[i].old
        /\ ch.updated[i].old["version"] = NullVersion

\* operations, as the three loops of sync_to_cloudflare leave it.
PlanOperations(ch) == NewOps(ch.new) \o UpdatedOps(ch.updated) \o DeletedOps(ch.deleted)

\* A run without the early return.
NothingToSend_Never(ops) == FALSE

\* if not operations: the run returns True and sends nothing.
NothingToSend(ops) == ops = << >>

\* The body of the batch request.
Payload(ops) == [ operations |-> ops, source |-> "awesome-assistants-sync", timestamp |-> Now ]

-----------------------------------------------------------------------------
(* The remote store: what a successful batch does to the records it holds. *)
(* An insert adds the payload as a record; an update overwrites the        *)
(* payload's fields in every record that holds the target id.              *)

StoreApplyOp(store, op) ==
    IF op.action = "insert" THEN Append(store, op.data)
    ELSE IF op.action = "update"
    THEN [i \in 1..Len(store) |->
            IF "id" \in DOMAIN store[i] /\ op.id # None /\ store[i]["id"] = op.id
            THEN Merge(store[i], op.data) ELSE store[i]]
    ELSE store

RECURSIVE StoreApply(_, _)
StoreApply(store, ops) ==
    IF ops = << >> THEN store
    ELSE StoreApply(StoreApplyOp(store, Head(ops)), Tail(ops))

-----------------------------------------------------------------------------
(* The inputs of a run *)

\* The longest declared list, the longest initial store, the number of runs.
MaxDeclared == 2
MaxRemote == 2
MaxRuns == 2

Names == { "A", "B" }
Urls == { "u1", "u2" }

\* The records a declared-state file may hold: named records, a record with
\* no name and no id, a record with an id only, and a named record that
\* carries bookkeeping fields of its own.
DeclaredRecords ==
    { [name |-> n, url |-> u] : n \in Names, u \in Urls }
    \cup { [url |-> "u1"],
           [id |-> "i1", url |-> "u2"],
           [name |-> "A", url |-> "u1", isActive |-> FALSE, version |-> 5] }

\* The records the remote store may hold when the first run starts: live
\* records with and without a version, an id, a name; a deactivated and a
\* soft-deleted record; a record marked deleted and still active; a record
\* whose dateDeleted is null; a record with no name and no id.
RemoteRecords ==
    { [id |-> "i1", name |-> "A", url |-> "u1", isActive |-> TRUE, version |-> 1],
      [id |-> "i2", name |-> "B", url |-> "u1", isActive |-> TRUE, version |-> 2],
      [id |-> "i1", name |-> "A", url |-> "u1", isActive |-> TRUE],
      [name |-> "A", url |-> "u1"],
      [id |-> "i1", url |-> "u1", isActive |-> TRUE, version |-> 1],
      [id |-> "i1", name |-> "A", url |-> "u1", isActive |-> FALSE, version |-> 1,
       dateDeactivated |-> "then"],
      [id |-> "i2", name |-> "B", url |-> "u1", isActive |-> FALSE, version |-> 1,
       dateDeleted |-> "then"],
      [id |-> "i2", name |-> "B", url |-> "u2", isActive |-> TRUE, version |-> 1,
       dateDeleted |-> "then"],
      [id |-> "i2", name |-> "B", url |-> "u2", isActive |-> TRUE, version |-> 3,
       dateDeleted |-> None],
      [url |-> "u1", isActive |-> TRUE] }

\* The lists of at most n elements of S.
SeqsUpTo(S, n) == UNION { [1..k -> S] : k \in 0..n }

\* Declared-state files that load (assistants is a list, or a string) and
\* hold elements that are not mappings.
MalformedDeclared ==
    { << Scalar("foo"), Scalar("bar") >>,
      << [name |-> "A", url |-> "u1"], Scalar("foo") >> }

\* Stores that hold a live record whose version is null.
NullVersionStores ==
    { << [id |-> "i1", name |-> "A", url |-> "u1", isActive |-> TRUE,
          version |-> NullVersion] >>,
      << [id |-> "i2", name |-> "B", url |-> "u1", isActive |-> TRUE, version |-> 2],
         [id |-> "i1", name |-> "A", url |-> "u1", isActive |-> TRUE,
          version |-> NullVersion] >> }

-----------------------------------------------------------------------------
(* The run: main and run_sync *)

\* The default of --state-file, as the components of the path.
DefaultStatePath == << ".github", "discovery-state", "processed-repos.json" >>

\* os.path.exists(self.state_file) is False.
NoFile == [ exists |-> FALSE ]

\* The discovery script is not running.
DiscoveryIdle ==
    /\ processed_repos = {}
    /\ state_path = DefaultStatePath
    /\ state_file = NoFile
    /\ recommendations = << >>
    /\ recommended = [ u \in {} |-> 0 ]
    /\ category = 0

\* main has parsed the command line and found the declared-state file name;
\* the store holds any records.
SyncStart ==
    /\ remote \in SeqsUpTo(RemoteRecords, MaxRemote) \cup NullVersionStores
    /\ artifact = None
    /\ pc = "load"
    /\ yaml_assistants = << >>
    /\ current_assistants = << >>
    /\ changes = NoChanges
    /\ operations = << >>
    /\ success = FALSE
    /\ requests = << >>
    /\ wrote = FALSE
    /\ run = 0
    /\ hashIn = << >>
    /\ hashOut = << >>
    /\ DiscoveryIdle

\* A run without --dry-run.
Init ==
    /\ SyncStart
    /\ dry_run = FALSE

\* A run with --dry-run.
InitDryRun ==
    /\ SyncStart
    /\ dry_run = TRUE

\* load_yaml_assistants returns what the file holds under assistants: the
\* declared records, or a list whose elements are not all mappings.
LoadYaml ==
    /\ pc = "load"
    /\ \E declared \in SeqsUpTo(DeclaredRecords, MaxDeclared) \cup MalformedDeclared :
          yaml_assistants' = declared
    /\ pc' = "fetch"
    /\ UNCHANGED << remote, artifact, current_assistants, changes, operations,
                    success, requests, wrote, run, hashIn, hashOut,
                    dry_run, discoveryVars >>

\* main: the declared-state file does not exist; the process exits before
\* run_sync is called.
FileMissing ==
    /\ pc = "load"
    /\ pc' = "nofile"
    /\ UNCHANGED << remote, artifact, yaml_assistants, current_assistants, changes,
                    operations, success, requests, wrote, run, hashIn, hashOut,
                    dry_run, discoveryVars >>

\* The declared-state file cannot be loaded (a YAML error, a top level that
\* is not a mapping, assistants: null): load_yaml_assistants raises, the
\* handler of run_sync catches the exception and run_sync returns False.
LoadFails ==
    /\ pc = "load"
    /\ pc' = "aborted"
    /\ success' = FALSE
    /\ UNCHANGED << remote, artifact, yaml_assistants, current_assistants, changes,
                    operations, requests, wrote, run, hashIn, hashOut,
                    dry_run, discoveryVars >>

\* The decoded body of an answer of the read endpoint: a bare list, or an
\* object with one list field.
ListResponse(records) == [ isDict |-> FALSE, isNull |-> FALSE, items |-> records ]
ObjectResponse(field, records) ==
    [ isDict |-> TRUE, fields |-> [ f \in { field } |-> records ] ]

\* The shapes in which the store may answer with the records it holds.
Responses(records) ==
    { ListResponse(records),
      ObjectResponse("assistants", records),
      ObjectResponse("records", records) }

\* The decoded body of an answer that is the JSON value null.
NullResponse == [ isDict |-> FALSE, isNull |-> TRUE ]

\* fetch_current_assistants, line 60: the records taken from the answer; an
\* answer that is not an object is taken as it is.
ResponseAssistants(data) ==
    IF data.isDict THEN GetOr(data.fields, "assistants", << >>)
    ELSE IF data.isNull THEN None
    ELSE data.items

\* fetch_current_assistants: the store answers with the records it holds, in
\* one of the shapes.
FetchCurrent ==
    /\ pc = "fetch"
    /\ requests' = Append(requests, [method |-> "GET", ok |-> TRUE])
    /\ \E data \in Responses(remote) :
          current_assistants' = ResponseAssistants(data)
    /\ pc' = "detect"
    /\ UNCHANGED << remote, artifact, yaml_assistants, changes, operations,
                    success, wrote, run, hashIn, hashOut,
                    dry_run, discoveryVars >>

\* fetch_current_assistants: the store answers the request with null; len of
\* None at line 62 raises a TypeError, which the except clause of line 65
\* does not catch: the handler of run_sync catches it and run_sync returns
\* False.
FetchRaises ==
    /\ pc = "fetch"
    /\ requests' = Append(requests, [method |-> "GET", ok |-> TRUE])
    /\ \E data \in { NullResponse } : ResponseAssistants(data) = None
    /\ success' = FALSE
    /\ pc' = "aborted"
    /\ UNCHANGED << remote, artifact, yaml_assistants, current_assistants, changes,
                    operations, wrote, run, hashIn, hashOut,
                    dry_run, discoveryVars >>

\* A fetch whose failure is raised to run_sync, which gives the run up.
FetchFails_Aborts ==
    /\ pc = "fetch"
    /\ requests' = Append(requests, [method |-> "GET", ok |-> FALSE])
    /\ success' = FALSE
    /\ pc' = "aborted"
    /\ UNCHANGED << remote, artifact, yaml_assistants, current_assistants, changes,
                    operations, wrote, run, hashIn, hashOut,
                    dry_run, discoveryVars >>

\* fetch_current_assistants: the request fails (no answer, or an answer with
\* an error status); the failure is caught and the empty list returned.
FetchFails ==
    /\ pc = "fetch"
    /\ requests' = Append(requests, [method |-> "GET", ok |-> FALSE])
    /\ current_assistants' = << >>
    /\ pc' = "detect"
    /\ UNCHANGED << remote, artifact, yaml_assistants, changes, operations,
                    success, wrote, run, hashIn, hashOut,
                    dry_run, discoveryVars >>

\* detect_changes calls get on every element of both lists: an element that
\* is not a mapping raises an AttributeError; the handler of run_sync catches
\* it and run_sync returns False.
DetectRaises ==
    /\ pc = "detect"
    /\ ~(AllMappings(yaml_assistants) /\ AllMappings(current_assistants))
    /\ success' = FALSE
    /\ pc' = "aborted"
    /\ UNCHANGED << remote, artifact, yaml_assistants, current_assistants, changes,
                    operations, requests, wrote, run, hashIn, hashOut,
                    dry_run, discoveryVars >>

DetectChanges ==
    /\ pc = "detect"
    /\ AllMappings(yaml_assistants) /\ AllMappings(current_assistants)
    /\ changes' = detect_changes(yaml_assistants, current_assistants)
    /\ pc' = "sync"
    /\ UNCHANGED << remote, artifact, yaml_assistants, current_assistants, operations,
                    success, requests, wrote, run, hashIn, hashOut,
                    dry_run, discoveryVars >>

\* sync_to_cloudflare raises while it builds the operations, before any
\* request is sent: the handler of run_sync catches the exception and
\* run_sync returns False.
SyncRaises ==
    /\ pc = "sync"
    /\ PlanRaises(changes)
    /\ success' = FALSE
    /\ pc' = "aborted"
    /\ UNCHANGED << remote, artifact, yaml_assistants, current_assistants, changes,
                    operations, requests, wrote, run, hashIn, hashOut,
                    dry_run, discoveryVars >>

\* sync_to_cloudflare: nothing to send.
SyncNothing ==
    /\ pc = "sync"
    /\ ~PlanRaises(changes)
    /\ operations' = PlanOperations(changes)
    /\ NothingToSend(operations')
    /\ success' = TRUE
    /\ pc' = "exit"
    /\ UNCHANGED << remote, artifact, yaml_assistants, current_assistants, changes,
                    requests, wrote, run, hashIn, hashOut,
                    dry_run, discoveryVars >>

\* sync_to_cloudflare: the batch is sent, the store applies it and answers
\* with a success status and a JSON body.
SyncSucceeds ==
    /\ pc = "sync"
    /\ ~PlanRaises(changes)
    /\ operations' = PlanOperations(changes)
    /\ ~NothingToSend(operations')
    /\ requests' = Append(requests, [method |-> "POST", ok |-> TRUE, json |-> TRUE,
                                      body |-> Payload(operations')])
    /\ remote' = StoreApply(remote, operations')
    /\ success' = TRUE
    /\ pc' = "exit"
    /\ UNCHANGED << artifact, yaml_assistants, current_assistants, changes,
                    wrote, run, hashIn, hashOut,
                    dry_run, discoveryVars >>

\* The ways in which the write request raises a RequestException: whether an
\* answer with a success status came back (ok) and whether the store has
\* applied the batch (applied). The request is refused, or answered with an
\* error status, by a store that has not applied the batch; the answer of a
\* store that has applied it is lost or carries an error status; the store
\* has applied the batch and answers with a success status and a body that
\* is not JSON (a 204, a text), so that response.json() at line 233 raises
\* JSONDecodeError, a RequestException since requests 2.27.
WriteFailures ==
    { [ ok |-> FALSE, applied |-> FALSE ],
      [ ok |-> FALSE, applied |-> TRUE ],
      [ ok |-> TRUE, applied |-> TRUE ] }

\* sync_to_cloudflare: the batch is sent and the try of line 218 raises a
\* RequestException: the except branch dumps the payload that was sent to
\* failed_sync_operations.json and returns False, whatever the store has
\* done with the batch.
SyncFails ==
    /\ pc = "sync"
    /\ ~PlanRaises(changes)
    /\ operations' = PlanOperations(changes)
    /\ ~NothingToSend(operations')
    /\ \E answer \in WriteFailures :
          /\ requests' = Append(requests, [method |-> "POST", ok |-> answer.ok,
                                            json |-> FALSE,
                                            body |-> Payload(operations')])
          /\ remote' = IF answer.applied THEN StoreApply(remote, operations')
                                         ELSE remote
    /\ artifact' = requests'[Len(requests')].body
    /\ wrote' = TRUE
    /\ success' = FALSE
    /\ pc' = "exit"
    /\ UNCHANGED << yaml_assistants, current_assistants, changes,
                    run, hashIn, hashOut,
                    dry_run, discoveryVars >>

\* The scheduler starts the next run, after this one has ended, in a working
\* directory of its own: the runs are serialized and share the store only.
NextRun ==
    /\ pc \in { "exit", "aborted", "nofile" }
    /\ run + 1 < MaxRuns
    /\ run' = run + 1
    /\ pc' = "load"
    /\ yaml_assistants' = << >>
    /\ current_assistants' = << >>
    /\ changes' = NoChanges
    /\ operations' = << >>
    /\ success' = FALSE
    /\ requests' = << >>
    /\ wrote' = FALSE
    /\ artifact' = None
    /\ UNCHANGED << remote, hashIn, hashOut,
                    dry_run, discoveryVars >>

\* The process has ended.
Ended == pc \in { "nofile", "aborted", "exit" }

\* A main that exits with 0 whatever run_sync returned.
ExitStatus_IgnoresResult == IF pc = "nofile" THEN 1 ELSE 0

\* main: the exit status of a process that has ended: 1 when the file is
\* missing, otherwise 0 if run_sync returned True and 1 if it returned False
\* (the handler of run_sync returns False for an exception of any step).
ExitStatus ==
    IF pc = "nofile" THEN 1
    ELSE IF success THEN 0 ELSE 1

\* One run, from any state of the store.
Next ==
    \/ LoadYaml
    \/ FileMissing
    \/ LoadFails
    \/ FetchCurrent
    \/ FetchFails
    \/ FetchRaises
    \/ DetectChanges
    \/ DetectRaises
    \/ SyncNothing
    \/ SyncRaises
    \/ SyncSucceeds
    \/ SyncFails

Spec == Init /\ [][Next]_vars

\* One run with --dry-run.
SpecDryRun == InitDryRun /\ [][Next]_vars

\* Runs one after the other, each on the store as the one before left it.
NextRuns == Next \/ NextRun

SpecRuns == Init /\ [][NextRuns]_vars

-----------------------------------------------------------------------------
(* The fingerprint on its own: compute_assistant_hash of two records *)

\* The dict with no field.
EmptyDict == [k \in {} |-> None]

\* A dict that holds the field k with a value of V, or does not hold it.
Optional(k, V) == { EmptyDict } \cup { [x \in {k} |-> v] : v \in V }

\* Records over the six tracked fields, each held or not (url also held with
\* the value None, tags in two orders), with or without fields of the other
\* kind.
HashRecords ==
    { Merge(n, Merge(d, Merge(u, Merge(c, Merge(t, Merge(a, x)))))) :
        n \in Optional("name", { "A", "B" }),
        d \in Optional("description", { "d1" }),
        u \in Optional("url", { "u1", None }),
        c \in Optional("category", { "c1" }),
        t \in Optional("tags", { << "t1", "t2" >>, << "t2", "t1" >> }),
        a \in Optional("author", { "a1" }),
        x \in { EmptyDict,
                [ id |-> "i1", version |-> 2, isActive |-> FALSE, dateAdded |-> "then",
                  dateDeactivated |-> "then", dateDeleted |-> "then",
                  previousVersion |-> "i0" ] } }

InitHash ==
    /\ remote = << >>
    /\ artifact = None
    /\ pc = "hash"
    /\ yaml_assistants = << >>
    /\ current_assistants = << >>
    /\ changes = NoChanges
    /\ operations = << >>
    /\ success = FALSE
    /\ requests = << >>
    /\ wrote = FALSE
    /\ run = 0
    /\ hashIn \in HashRecords \X HashRecords
    /\ hashOut = << >>
    /\ dry_run = FALSE
    /\ DiscoveryIdle

ComputeHashes ==
    /\ pc = "hash"
    /\ hashOut' = << compute_assistant_hash(hashIn[1]), compute_assistant_hash(hashIn[2]) >>
    /\ pc' = "hashed"
    /\ UNCHANGED << remote, artifact, yaml_assistants, current_assistants, changes,
                    operations, success, requests, wrote, run, hashIn,
                    dry_run, discoveryVars >>

SpecHash == InitHash /\ [][ComputeHashes]_vars

-----------------------------------------------------------------------------
(* C7 *)

\* Two records agree on a field when both hold it with the same value or
\* neither holds it.
AgreeOn(r1, r2, k) ==
    /\ k \in DOMAIN r1 <=> k \in DOMAIN r2
    /\ k \in DOMAIN r1 => r1[k] = r2[k]

TrackedFields == { "name", "description", "url", "category", "tags", "author" }

\* C7: the fingerprints of two records are equal if and only if the records
\* agree on the six tracked fields name, description, url, category, tags and
\* author; no other field of either record has a say.
C7_HashIffTrackedAgree ==
    pc = "hashed" =>
        ( hashOut[1] = hashOut[2]
            <=> \A k \in TrackedFields : AgreeOn(hashIn[1], hashIn[2], k) )

\* Two records that differ, in untracked fields only, got the same fingerprint.
C7_Witness ==
    /\ pc = "hashed"
    /\ hashIn[1] # hashIn[2]
    /\ "tags" \in DOMAIN hashIn[1]
    /\ "version" \in DOMAIN hashIn[1] /\ "version" \notin DOMAIN hashIn[2]
    /\ hashOut[1] = hashOut[2]

-----------------------------------------------------------------------------
(* What the claims speak of *)

\* A persisted record is live: isActive is true (the default) and dateDeleted
\* is unset.
Live(r) ==
    /\ "isActive" \in DOMAIN r => r["isActive"] = TRUE
    /\ "dateDeleted" \in DOMAIN r => r["dateDeleted"] = None

\* A record has an identity key: a name or an id.
Keyed(r) ==
    \/ "name" \in DOMAIN r /\ r["name"] \notin { None, "" }
    \/ "id" \in DOMAIN r /\ r["id"] \notin { None, "" }

\* The identity keys of the declared records and of the live current records.
DeclaredKeys == { IdentityKey(r) : r \in { x \in Range(yaml_assistants) : Keyed(x) } }
LiveKeys ==
    { IdentityKey(r) : r \in { x \in Range(current_assistants) : Live(x) /\ Keyed(x) } }

KeysOf(group) == { IdentityKey(group[i]) : i \in 1..Len(group) }
UpdatedKeys == { IdentityKey(changes.updated[i].new) : i \in 1..Len(changes.updated) }

\* detect_changes has returned: the step that follows it is about to begin.
\* The later steps change neither its result nor the two collections it was
\* given, so what holds of the diff here holds of it until the run ends.
Detected == pc = "sync"

\* sync_to_cloudflare has run.
Planned == pc = "exit"

\* The places of the operations with an action.
OpsWith(action) == { j \in 1..Len(operations) : operations[j].action = action }

\* The fields an insert sets itself.
InsertSets == { "isActive", "dateAdded", "version", "previousVersion" }

-----------------------------------------------------------------------------
(* C1 *)

\* C1: detect_changes puts every identity key of the declared records and of
\* the live current records into exactly one of the groups new, updated,
\* deleted, unchanged: the groups' key sets are pairwise disjoint, no group
\* holds a key twice, and together they are the declared and the live keys.
C1_DiffPartitionsKeys ==
    Detected =>
        LET n == KeysOf(changes.new)
            u == UpdatedKeys
            d == KeysOf(changes.deleted)
            c == KeysOf(changes.unchanged)
        IN  /\ n \cap u = {} /\ n \cap d = {} /\ n \cap c = {}
            /\ u \cap d = {} /\ u \cap c = {} /\ d \cap c = {}
            /\ n \cup u \cup d \cup c = DeclaredKeys \cup LiveKeys
            /\ Len(changes.new) + Len(changes.updated) + Len(changes.deleted)
                 + Len(changes.unchanged) = Cardinality(DeclaredKeys \cup LiveKeys)
            /\ \A i \in 1..Len(changes.updated) :
                 IdentityKey(changes.updated[i].old) = IdentityKey(changes.updated[i].new)

\* A diff with a new, an updated and a deleted record at once.
C1_Witness ==
    /\ Detected
    /\ Len(changes.new) = 1 /\ Len(changes.updated) = 1 /\ Len(changes.deleted) = 1
    /\ Len(current_assistants) = 2

-----------------------------------------------------------------------------
(* C6 *)

\* C6: only live current records take part in the diff.  The old side of
\* every updated pair and every deleted record is a live record of the
\* current collection, and the planner emits one update for each of them and
\* no other; so a record that is not live yields no deleted entry and no
\* operation.
C6_OnlyLiveRecordsDiffed ==
    /\ Detected =>
         /\ \A i \in 1..Len(changes.updated) :
              /\ changes.updated[i].old \in Range(current_assistants)
              /\ Live(changes.updated[i].old)
         /\ \A i \in 1..Len(changes.deleted) :
              /\ changes.deleted[i] \in Range(current_assistants)
              /\ Live(changes.deleted[i])
    /\ Planned =>
         /\ Cardinality(OpsWith("update")) = Len(changes.updated) + Len(changes.deleted)
         /\ (\A r \in Range(current_assistants) : ~Live(r)) => OpsWith("update") = {}

\* A soft-deleted record whose key is not declared, beside a live one that is
\* deleted by this run: one deleted entry and one operation, not two.
C6_Witness ==
    /\ Planned
    /\ Len(current_assistants) = 2
    /\ ~Live(current_assistants[1])
    /\ Get(current_assistants[1], "dateDeleted") # None
    /\ GetOr(current_assistants[1], "isActive", TRUE)
    /\ IdentityKey(current_assistants[1]) \notin DeclaredKeys
    /\ Live(current_assistants[2])
    /\ changes.deleted = << current_assistants[2] >>
    /\ Len(operations) = 1

-----------------------------------------------------------------------------
(* C8 *)

\* C8: for every new record the planner emits exactly one insert; its payload
\* has isActive true and version 1 whatever the declared record says of them,
\* and the declared record's other fields as they are.
C8_NewRecordInsert ==
    Planned =>
        \A i \in 1..Len(changes.new) :
            LET a == changes.new[i]
                op == operations[i]
            IN  /\ op.action = "insert"
                /\ op.data["isActive"] = TRUE
                /\ op.data["version"] = 1
                /\ DOMAIN op.data = DOMAIN a \cup { "isActive", "dateAdded", "version" }
                /\ \A k \in DOMAIN a \ InsertSets : op.data[k] = a[k]
                /\ Cardinality({ j \in OpsWith("insert") :
                        IdentityKey(operations[j].data) = IdentityKey(a) }) = 1

\* A new record that declares isActive false and version 5 of its own.
C8_Witness ==
    /\ Planned
    /\ Len(changes.new) = 2
    /\ "isActive" \in DOMAIN changes.new[2]
    /\ changes.new[2]["isActive"] = FALSE
    /\ changes.new[2]["version"] = 5
    /\ operations[2].data["isActive"] = TRUE

-----------------------------------------------------------------------------
(* C9 *)

\* C9: for every deleted record the planner emits exactly one update, after
\* the operations of the new and the updated records and in the order of the
\* deleted group; it targets the record's id, sets dateDeleted and isActive
\* false, and no insert carries the record's key.
C9_DeletedRecordUpdate ==
    Planned =>
        LET off == Len(changes.new) + 2 * Len(changes.updated)
        IN  /\ Len(operations) = off + Len(changes.deleted)
            /\ Cardinality(OpsWith("update")) = Len(changes.updated) + Len(changes.deleted)
            /\ \A i \in 1..Len(changes.deleted) :
                 LET d == changes.deleted[i]
                     op == operations[off + i]
                 IN  /\ op.action = "update"
                     /\ op.id = Get(d, "id")
                     /\ DOMAIN op.data = { "dateDeleted", "isActive" }
                     /\ Truthy(op.data["dateDeleted"])
                     /\ op.data["isActive"] = FALSE
                     /\ \A j \in OpsWith("insert") :
                          IdentityKey(operations[j].data) # IdentityKey(d)

\* Two records deleted in one run, beside a new one.
C9_Witness ==
    /\ Planned
    /\ Len(changes.deleted) = 2
    /\ Len(changes.new) = 1
    /\ operations[2].id = "i1" /\ operations[3].id = "i2"

-----------------------------------------------------------------------------
(* C10 *)

\* C10: unchanged records produce no operation, and a run whose plan is
\* empty reports success, has sent no write request and has written no
\* recovery artifact.
C10_EmptyPlanSendsNothing ==
    Planned =>
        /\ Len(operations)
             = Len(changes.new) + 2 * Len(changes.updated) + Len(changes.deleted)
        /\ ( changes.new = << >> /\ changes.updated = << >> /\ changes.deleted = << >> )
             => /\ operations = << >>
                /\ success = TRUE
                /\ \A i \in 1..Len(requests) : requests[i].method # "POST"
                /\ wrote = FALSE
                /\ artifact = None

\* A run that found two unchanged records and nothing else.
C10_Witness ==
    /\ Planned
    /\ Len(changes.unchanged) = 2
    /\ operations = << >>
    /\ success = TRUE
    /\ Len(requests) = 1

-----------------------------------------------------------------------------
(* C2 *)

\* The run fetched the store's records, planned from them, and the store has
\* applied the plan (or there was nothing to apply).
Synced ==
    /\ Planned
    /\ success = TRUE
    /\ requests[1].ok = TRUE

\* C2: after a run whose plan the store has applied, detect_changes of the
\* same declared records against the store's new records finds nothing new,
\* updated or deleted.
C2_SecondDiffAllUnchanged ==
    Synced =>
        LET again == detect_changes(yaml_assistants, remote)
        IN  again.new = << >> /\ again.updated = << >> /\ again.deleted = << >>

-----------------------------------------------------------------------------
(* C3 *)

\* The version of a record: the version it stores, or 1, the data model's
\* default.
VersionOf(r) == GetOr(r, "version", 1)

\* C3: for every updated pair the planner emits two operations, one after the
\* other: an update that targets the old record's id and sets isActive false,
\* then an insert with the new record's fields, isActive true, the old
\* record's version plus one and previousVersion the old record's id.
C3_UpdatedPairOperations ==
    Planned =>
        /\ Len(operations)
             = Len(changes.new) + 2 * Len(changes.updated) + Len(changes.deleted)
        /\ \A i \in 1..Len(changes.updated) :
             LET u == changes.updated[i]
                 first == operations[Len(changes.new) + 2 * i - 1]
                 second == operations[Len(changes.new) + 2 * i]
             IN  /\ first.action = "update"
                 /\ first.id = Get(u.old, "id")
                 /\ first.data["isActive"] = FALSE
                 /\ second.action = "insert"
                 /\ \A k \in DOMAIN u.new \ InsertSets : second.data[k] = u.new[k]
                 /\ second.data["isActive"] = TRUE
                 /\ second.data["version"] = VersionOf(u.old) + 1
                 /\ second.data["previousVersion"] = Get(u.old, "id")

-----------------------------------------------------------------------------
(* C4 *)

\* C4: in every run, the record inserted as the successor of an old record
\* refers to it by previousVersion and has a version greater than the old
\* record's, an old record without a version field counting as version 1.
C4_VersionGrowsAlongChain ==
    Planned =>
        \A i \in 1..Len(changes.updated) :
            LET u == changes.updated[i]
                successor == operations[Len(changes.new) + 2 * i].data
            IN  /\ successor["previousVersion"] = Get(u.old, "id")
                /\ successor["version"] > VersionOf(u.old)

-----------------------------------------------------------------------------
(* C5 *)

\* The fields a soft delete or a deactivation writes.
MarkFields == { "isActive", "dateDeleted", "dateDeactivated" }

\* The store has kept every record it held: in its place, with every field
\* but the marks as it was.
StoreKeeps(before, after) ==
    /\ Len(after) >= Len(before)
    /\ \A i \in 1..Len(before) :
         \A k \in DOMAIN before[i] \ MarkFields :
            k \in DOMAIN after[i] /\ after[i][k] = before[i][k]

\* C5: every operation the planner emits is an insert or an update, and no
\* step of any run takes a record out of the store: a record the declared
\* set has dropped is marked and stays.
C5_AppendOnly ==
    [][ /\ \A j \in 1..Len(operations') : operations'[j].action \in { "insert", "update" }
        /\ StoreKeeps(remote, remote') ]_vars

\* A second run has soft-deleted a record that the first run inserted under
\* a declared id: the store holds it still, marked.
C5_Witness ==
    /\ Synced
    /\ run = 1
    /\ Len(changes.deleted) = 1
    /\ \E i \in 1..Len(remote) :
          /\ "id" \in DOMAIN remote[i] /\ remote[i]["id"] = Get(changes.deleted[1], "id")
          /\ Get(remote[i], "dateAdded") = Now
          /\ Get(remote[i], "dateDeleted") = Now
          /\ remote[i]["isActive"] = FALSE

-----------------------------------------------------------------------------
(* C11 *)

\* The write requests of the run.
Posts == { i \in 1..Len(requests) : requests[i].method = "POST" }

\* C11: a run whose batch write failed (no answer, or an answer with an
\* error status) ends with sync_to_cloudflare returning False and with a
\* recovery artifact that holds exactly the body that was submitted: the
\* planned operations, the source identifier and the timestamp. A run whose
\* batch write succeeded (it was answered with a success status), or that
\* sent none, wrote no recovery artifact.
C11_FailedWriteLeavesArtifact ==
    Planned =>
        /\ \A i \in Posts :
              ~requests[i].ok =>
                  /\ success = FALSE
                  /\ wrote
                  /\ artifact = requests[i].body
                  /\ DOMAIN artifact = { "operations", "source", "timestamp" }
                  /\ artifact.operations = operations
                  /\ artifact.source = "awesome-assistants-sync"
                  /\ artifact.timestamp = Now
        /\ (\A i \in Posts : requests[i].ok) => ~wrote /\ artifact = None

-----------------------------------------------------------------------------
(* C12 *)

\* The read request of the run was sent and failed.
FetchFailed ==
    /\ requests # << >>
    /\ requests[1].method = "GET"
    /\ ~requests[1].ok

\* C12: a run whose remote read failed is not given up for it. It goes on
\* with the empty collection as the current state: every identity key of the
\* declared collection is classified new, with a declared record as its
\* entry, nothing is updated, unchanged or deleted, and the plan, one insert
\* per new entry, is submitted to the store unless it is empty. The only run
\* given up after a failed read is one whose declared records are not all
\* mappings, which the diff gives up whatever the read returned.
C12_FailedReadAllNew ==
    FetchFailed =>
        /\ \/ pc \in { "detect", "sync", "exit" }
           \/ pc = "aborted" /\ ~AllMappings(yaml_assistants)
        /\ current_assistants = << >>
        /\ Detected =>
              /\ KeysOf(changes.new) = DeclaredKeys
              /\ Len(changes.new) = Cardinality(DeclaredKeys)
              /\ \A i \in 1..Len(changes.new) : changes.new[i] \in Range(yaml_assistants)
              /\ changes.updated = << >>
              /\ changes.unchanged = << >>
              /\ changes.deleted = << >>
        /\ Planned =>
              /\ Len(operations) = Len(changes.new)
              /\ \A j \in 1..Len(operations) :
                    /\ operations[j].action = "insert"
                    /\ IdentityKey(operations[j].data) = IdentityKey(changes.new[j])
              /\ operations # << >> =>
                    \E i \in Posts : requests[i].body.operations = operations

\* The read failed while the store held a live record "A"; the run declared
\* "A" and "B" and submitted two inserts.
C12_Witness ==
    /\ FetchFailed
    /\ Planned
    /\ \E i \in 1..Len(remote) : Live(remote[i]) /\ Keyed(remote[i])
                                    /\ IdentityKey(remote[i]) = "A"
    /\ DeclaredKeys = { "A", "B" }
    /\ Len(operations) = 2
    /\ Posts # {}

-----------------------------------------------------------------------------
(* C13 *)

\* The batch write of the run was attempted and failed: no answer, or an
\* answer with an error status.
WriteFailed == \E i \in Posts : ~requests[i].ok

\* The batch write of the run was attempted and its request raised: it
\* failed, or its answer could not be decoded.
WriteRaised == \E i \in Posts : ~requests[i].ok \/ ~requests[i].json

\* C13, as stated: every run that ends with a non-zero exit status is one in
\* which the batch write was attempted and failed.
C13_NonZeroOnlyOnFailedWrite ==
    Ended /\ ExitStatus # 0 => WriteFailed

\* C13, amended: a run ends with a non-zero exit status exactly when the
\* declared-state file is missing, or run_sync gives the run up on an
\* exception of one of its steps (the declared state cannot be loaded, the
\* read is answered with null, a declared record is not a mapping, a stored
\* version is null), or the batch write was attempted and its request
\* raised (no answer, an error status, or an answer with a success status
\* whose body is not JSON); a failed read alone leaves the exit status 0.
C13_NonZeroOnAbortOrFailedWrite ==
    Ended =>
        ( ExitStatus # 0 <=> pc = "nofile" \/ pc = "aborted" \/ WriteRaised )

\* A run ended with status 1 and had sent no request: the store, which holds
\* records, was never asked.
C13_Witness ==
    /\ Ended
    /\ ExitStatus = 1
    /\ requests = << >>
    /\ remote # << >>

-----------------------------------------------------------------------------
(* C14 *)

\* The steps of a run in their order: load, fetch, diff, plan and execute
\* (both in sync_to_cloudflare). main ends the run before the load step when
\* the file is missing; the handler of run_sync ends it at whichever step
\* raises.
StepOrder ==
    { << "load", "fetch" >>, << "load", "nofile" >>, << "load", "aborted" >>,
      << "fetch", "detect" >>, << "fetch", "aborted" >>,
      << "detect", "sync" >>, << "detect", "aborted" >>,
      << "sync", "exit" >>, << "sync", "aborted" >> }

\* The declared-state file loaded and holds elements that are not mappings.
Malformed == ~AllMappings(yaml_assistants)

\* C14: a run whose declared-state file is missing or malformed (it cannot
\* be loaded, or it loads and holds elements that are not mappings) sends
\* neither a read nor a write request; and the steps of every run follow
\* the order load, fetch, diff, plan, execute: the read request is sent in
\* the fetch step only, the write request in the last step only, with the
\* plan made from the diff as its body.
C14_AbortBeforeRemoteCalls ==
    [][ /\ << pc, pc' >> \in StepOrder
        /\ pc = "load" /\ pc' \in { "nofile", "aborted" } => requests' = << >>
        /\ Malformed' => requests' = << >>
        /\ requests' # requests =>
              /\ Len(requests') = Len(requests) + 1
              /\ \/ /\ pc = "fetch"
                    /\ requests = << >>
                    /\ requests'[1].method = "GET"
                 \/ /\ pc = "sync"
                    /\ Len(requests) = 1
                    /\ requests'[2].method = "POST"
                    /\ requests'[2].body.operations = PlanOperations(changes)
        /\ pc = "detect" /\ pc' = "sync" =>
              changes' = detect_changes(yaml_assistants, current_assistants)
      ]_vars

-----------------------------------------------------------------------------
(* C15 *)

\* C15: a read request that is answered yields the records the store holds,
\* in each of the shapes of the answer: a bare list, an object with an
\* assistants list, an object with a records list.
C15_FetchYieldsRecords ==
    [][ pc = "fetch" /\ pc' = "detect" /\ requests'[1].ok
            => current_assistants' = remote ]_vars

-----------------------------------------------------------------------------
(* C16 *)

\* C16: a run started with --dry-run sends no write request to the store,
\* whatever the diff holds.
C16_DryRunSendsNoWrite ==
    dry_run => Posts = {}

-----------------------------------------------------------------------------
(* The discovery script: discover_repos.py *)

\* SearchCategory.recommendation_count, which no category overrides.
recommendation_count == 5

\* repo.get('html_url', '')
HtmlUrl(repo) == GetOr(repo, "html_url", "")

\* score_repository: the points for the star count.
StarPoints(stars) ==
    IF stars >= 10000 THEN 30
    ELSE IF stars >= 5000 THEN 25
    ELSE IF stars >= 1000 THEN 20
    ELSE IF stars >= 500 THEN 15
    ELSE IF stars >= 100 THEN 10
    ELSE 5

\* The clock of the run, datetime.utcnow(), and the timestamps of the
\* repositories are counted in days; the timestamps fall at the clock's time
\* of day.
Today == 19000

\* (datetime.utcnow() - updated).days
DaysSince(updated) == Today - updated

\* score_repository: the points for recent activity.
ActivityPoints(days_since_update) ==
    IF days_since_update <= 7 THEN 20
    ELSE IF days_since_update <= 30 THEN 15
    ELSE IF days_since_update <= 90 THEN 10
    ELSE IF days_since_update <= 180 THEN 5
    ELSE 0

\* score_repository: the points for the fork count.
ForkPoints(forks) ==
    IF forks >= 1000 THEN 15
    ELSE IF forks >= 500 THEN 12
    ELSE IF forks >= 100 THEN 9
    ELSE IF forks >= 50 THEN 6
    ELSE 3

\* score_repository: the points for the open issues.
IssuePoints(open_issues) ==
    IF open_issues <= 10 THEN 10
    ELSE IF open_issues <= 50 THEN 7
    ELSE IF open_issues <= 100 THEN 5
    ELSE 2

\* bool(d) of a dict.
TruthyDict(d) == DOMAIN d # {}

\* score_repository. updated_at is a timestamp where held: a repository
\* whose updated_at is empty, or is a string that fromisoformat rejects, gets
\* no points for recent activity, as one without the field. topics is a list
\* where held. license is an object where held: a license that is null, which
\* is as false as the empty object, is the empty object here.
score_repository(repo) ==
    StarPoints(GetOr(repo, "stargazers_count", 0))
    + (IF "updated_at" \in DOMAIN repo
       THEN ActivityPoints(DaysSince(repo["updated_at"])) ELSE 0)
    + ForkPoints(GetOr(repo, "forks_count", 0))
    + (IF Truthy(Get(repo, "description")) THEN 5 ELSE 0)
    + (IF "topics" \in DOMAIN repo /\ Len(repo["topics"]) > 0 THEN 5 ELSE 0)
    + IssuePoints(GetOr(repo, "open_issues_count", 0))
    + (IF "license" \in DOMAIN repo /\ TruthyDict(repo["license"]) THEN 5 ELSE 0)
    + (IF Truthy(Get(repo, "homepage")) THEN 5 ELSE 0)

\* discover_category: the search results of all keywords, each URL once (the
\* first repository found with it), repositories without URL left out.
RECURSIVE Deduplicate(_)
Deduplicate(repos) ==
    IF repos = << >> THEN << >>
    ELSE LET n == Len(repos)
             all_repos == Deduplicate(SubSeq(repos, 1, n - 1))
             url == HtmlUrl(repos[n])
         IN  IF Truthy(url) /\ \A i \in 1..Len(all_repos) : HtmlUrl(all_repos[i]) # url
             THEN Append(all_repos, repos[n]) ELSE all_repos

\* A filter that lets the processed repositories through.
filter_new_repositories_KeepsProcessed(repositories, processed) ==
    SelectSeq(repositories, LAMBDA repo : Truthy(HtmlUrl(repo)))

\* filter_new_repositories
filter_new_repositories(repositories, processed) ==
    SelectSeq(repositories, LAMBDA repo :
        Truthy(HtmlUrl(repo)) /\ HtmlUrl(repo) \notin processed)

\* repo['discovery_score'] = self.score_repository(repo)
Scored(repos) ==
    [ i \in 1..Len(repos) |->
        Merge(repos[i], [ discovery_score |-> score_repository(repos[i]) ]) ]

\* list.sort(key = discovery_score, reverse = True): stable, so repositories
\* of one score keep their order.
RECURSIVE SortByScore(_)
SortByScore(repos) ==
    IF repos = << >> THEN << >>
    ELSE LET n == Len(repos)
             sorted == SortByScore(SubSeq(repos, 1, n - 1))
             before == SelectSeq(sorted, LAMBDA r :
                           r["discovery_score"] >= repos[n]["discovery_score"])
             after == SelectSeq(sorted, LAMBDA r :
                           r["discovery_score"] < repos[n]["discovery_score"])
         IN  before \o << repos[n] >> \o after

\* new_repos[:count]
Top(repos, count) == SubSeq(repos, 1, IF Len(repos) < count THEN Len(repos) ELSE count)

\* discover_category on the search results repos, with no Cloudflare endpoint
\* configured (get_agentic_analysis returns {}): the recommendations it
\* returns and the processed set it leaves.
discover_category(repos, processed) ==
    LET new_repos == filter_new_repositories(Deduplicate(repos), processed)
        top == Top(SortByScore(Scored(new_repos)), recommendation_count)
    IN  [ recommendations |-> top,
          processed_repos |-> processed \cup { HtmlUrl(top[i]) : i \in 1..Len(top) } ]

\* list(a_set): the elements, each once, in an order that the hashes of
\* the strings decide and that differs from process to process: every order.
RECURSIVE ListsOfSet(_)
ListsOfSet(S) ==
    IF S = {} THEN { << >> }
    ELSE UNION { { << x >> \o rest : rest \in ListsOfSet(S \ { x }) } : x \in S }

\* os.path.dirname of a path.
Dirname(path) == SubSeq(path, 1, Len(path) - 1)

\* os.makedirs(dir, exist_ok=True) raises FileNotFoundError for the empty
\* path.
MakedirsRaises(dir) == dir = << >>

\* save_state: the state file after it, with the list that list() made of
\* the processed set.
SavedState(processed_list) ==
    [ exists |-> TRUE,
      data |-> [ processed_repos |-> processed_list, last_updated |-> Now ] ]

\* load_state: the processed set after it; without a file the set stays empty.
LoadedState(file) ==
    IF file.exists THEN Range(GetOr(file.data, "processed_repos", << >>)) ELSE {}

\* The number of categories a run searches and the number of runs.
MaxCategories == 2
MaxDiscoveryRuns == 2
\* The longest list of search results, the full pages apart.
MaxFound == 2

\* Repositories as the search returns them: six with URLs of their own (two
\* of one score), one more with the URL of the first, one with an empty URL
\* and one with none; updated a few days or many months before the run, one
\* with an empty description, one whose license is null.
Repo(n) ==
    [ html_url |-> "g" \o n, full_name |-> "o/" \o n ]
G1 == Merge(Repo("1"), [ stargazers_count |-> 12000, forks_count |-> 1200,
                         updated_at |-> Today - 40,
                         description |-> "d", topics |-> << "t" >>,
                         open_issues_count |-> 5, license |-> [ name |-> "MIT" ],
                         homepage |-> "h" ])
G1Again == Merge(G1, [ stargazers_count |-> 12001, updated_at |-> Today - 90 ])
G2 == Merge(Repo("2"), [ stargazers_count |-> 600, forks_count |-> 60,
                         updated_at |-> Today - 2,
                         license |-> EmptyDict ])
G3 == Merge(Repo("3"), [ stargazers_count |-> 700, forks_count |-> 70,
                         updated_at |-> Today - 7 ])
G4 == Merge(Repo("4"), [ stargazers_count |-> 150, forks_count |-> 10,
                         updated_at |-> Today - 30,
                         open_issues_count |-> 200 ])
G5 == Merge(Repo("5"), [ stargazers_count |-> 6000, forks_count |-> 600,
                         updated_at |-> Today - 180,
                         open_issues_count |-> 30 ])
G6 == Merge(Repo("6"), [ stargazers_count |-> 30, forks_count |-> 0,
                         updated_at |-> Today - 181,
                         description |-> "", open_issues_count |-> 80 ])
EmptyUrl == [ html_url |-> "", full_name |-> "o/7", stargazers_count |-> 900,
              updated_at |-> Today + 1 ]
NoUrl == [ full_name |-> "o/8", stargazers_count |-> 900 ]

RepoUrls == { "g1", "g2", "g3", "g4", "g5", "g6" }

\* The search results of one category: short lists, and two full pages with
\* more new repositories than a category recommends.
SearchResults ==
    SeqsUpTo({ G1, G1Again, G2, G3, EmptyUrl, NoUrl }, MaxFound)
    \cup { << G6, G4, G2, G3, G5, G1, G1Again, EmptyUrl >>,
           << G3, G2, G1, G4, G5, G6 >> }

\* The state file when the first run starts: none, one without the list, one
\* that an earlier run has written.
StateFiles ==
    { NoFile, [ exists |-> TRUE, data |-> [ last_updated |-> Now ] ],
      SavedState(<< "g1" >>) }

\* --state-file: the default, and a file name with no directory part.
StatePaths == { DefaultStatePath, << "processed.json" >> }

InitDiscovery ==
    /\ remote = << >>
    /\ artifact = None
    /\ pc = "dstart"
    /\ yaml_assistants = << >>
    /\ current_assistants = << >>
    /\ changes = NoChanges
    /\ operations = << >>
    /\ success = FALSE
    /\ requests = << >>
    /\ wrote = FALSE
    /\ run = 0
    /\ hashIn = << >>
    /\ hashOut = << >>
    /\ dry_run = FALSE
    /\ processed_repos = {}
    /\ state_path \in StatePaths
    /\ state_file \in StateFiles
    /\ recommendations = << >>
    /\ recommended = [ u \in RepoUrls |-> 0 ]
    /\ category = 0

syncVars == << remote, artifact, yaml_assistants, current_assistants, changes,
               operations, success, requests, wrote, hashIn, hashOut, dry_run >>

\* RepositoryDiscovery.__init__: the processed set is empty, then load_state.
StartDiscovery ==
    /\ pc = "dstart"
    /\ processed_repos' = LoadedState(state_file)
    /\ category' = 0
    /\ recommendations' = << >>
    /\ pc' = "discover"
    /\ UNCHANGED << syncVars, run, state_path, state_file, recommended >>

\* run_discovery: discover_category for the next category.
DiscoverCategory ==
    /\ pc = "discover"
    /\ category < MaxCategories
    /\ \E repos \in SearchResults :
          LET result == discover_category(repos, processed_repos)
          IN  /\ recommendations' = result.recommendations
              /\ processed_repos' = result.processed_repos
              /\ recommended' =
                    [ u \in DOMAIN recommended |->
                        recommended[u]
                        + Cardinality({ i \in 1..Len(result.recommendations) :
                                          HtmlUrl(result.recommendations[i]) = u }) ]
    /\ category' = category + 1
    /\ UNCHANGED << syncVars, pc, run, state_path, state_file >>

\* run_discovery, after the categories: save_state writes the processed set
\* as a list; the process ends.
SaveState ==
    /\ pc = "discover"
    /\ ~MakedirsRaises(Dirname(state_path))
    /\ \E processed_list \in ListsOfSet(processed_repos) :
          state_file' = SavedState(processed_list)
    /\ pc' = "dexit"
    /\ UNCHANGED << syncVars, run, processed_repos, state_path, recommendations,
                    recommended, category >>

\* run_discovery, after the categories: save_state raises at line 174, for a
\* state file path with no directory part, before it opens the file; main
\* catches the exception and the process ends with the state file as it was.
SaveStateRaises ==
    /\ pc = "discover"
    /\ MakedirsRaises(Dirname(state_path))
    /\ pc' = "dexit"
    /\ UNCHANGED << syncVars, run, discoveryVars >>

\* The scheduler starts the script again, on the state file as it is.
NextDiscovery ==
    /\ pc = "dexit"
    /\ run + 1 < MaxDiscoveryRuns
    /\ run' = run + 1
    /\ pc' = "dstart"
    /\ UNCHANGED << syncVars, discoveryVars >>

NextDiscover ==
    \/ StartDiscovery
    \/ DiscoverCategory
    \/ SaveState
    \/ SaveStateRaises
    \/ NextDiscovery

SpecDiscovery == InitDiscovery /\ [][NextDiscover]_vars

-----------------------------------------------------------------------------
(* C18 *)

\* save_state can write the state file of this run.
StateIsSaved == ~MakedirsRaises(Dirname(state_path))

\* C18: a call of discover_category returns no repository whose URL was in
\* the processed set when it began, and leaves the URL of every repository it
\* returns in the set; within a run the processed set only grows. Over the
\* runs, where the state is saved at the end of one run and loaded at the
\* start of the next, the processed set only grows as well (the set a run
\* loads is the set the run before saved) and no URL is returned twice.
C18_NeverRecommendedTwice ==
    [][ /\ pc = "discover" => processed_repos \subseteq processed_repos'
        /\ category' = category + 1 =>
              \A i \in 1..Len(recommendations') :
                  /\ Truthy(HtmlUrl(recommendations'[i]))
                  /\ HtmlUrl(recommendations'[i]) \notin processed_repos
                  /\ HtmlUrl(recommendations'[i]) \in processed_repos'
        /\ StateIsSaved =>
              /\ processed_repos \subseteq processed_repos'
              /\ \A u \in DOMAIN recommended' : recommended'[u] <= 1
      ]_vars

\* The second run has loaded the five URLs that the first run recommended
\* from a full page, and recommends the sixth.
C18_Witness ==
    /\ StateIsSaved
    /\ run = 1
    /\ pc = "discover"
    /\ Len(recommendations) = 1
    /\ HtmlUrl(recommendations[1]) = "g6"
    /\ processed_repos = RepoUrls
    /\ Cardinality(LoadedState(state_file)) = 5

-----------------------------------------------------------------------------
(* The diff on its own: detect_changes of longer declared collections *)

\* The longest declared and the longest current collection of the diff alone.
MaxOrderDeclared == 3
MaxOrderCurrent == 3

\* Declared records of two keys, each with two contents, and one with no
\* key; persisted records of three keys, one of them not declared, and one
\* with no key.
OrderDeclared ==
    { [name |-> n, url |-> u] : n \in Names, u \in Urls } \cup { [url |-> "u1"] }
OrderCurrent ==
    { [id |-> "i1", name |-> "A", url |-> "u1", isActive |-> TRUE, version |-> 1],
      [id |-> "i2", name |-> "B", url |-> "u2", isActive |-> TRUE, version |-> 2],
      [id |-> "i3", name |-> "C", url |-> "u1", isActive |-> TRUE, version |-> 1],
      [url |-> "u1", isActive |-> TRUE] }

\* run_sync at the call of detect_changes, with any two collections.
InitOrder ==
    /\ remote = << >>
    /\ artifact = None
    /\ pc = "detect"
    /\ yaml_assistants \in SeqsUpTo(OrderDeclared, MaxOrderDeclared)
    /\ current_assistants \in SeqsUpTo(OrderCurrent, MaxOrderCurrent)
    /\ changes = NoChanges
    /\ operations = << >>
    /\ success = FALSE
    /\ requests = << >>
    /\ wrote = FALSE
    /\ run = 0
    /\ hashIn = << >>
    /\ hashOut = << >>
    /\ dry_run = FALSE
    /\ DiscoveryIdle

SpecOrder == InitOrder /\ [][DetectChanges]_vars

-----------------------------------------------------------------------------
(* C19 *)

\* The places of a key in the declared collection and among the live
\* records of the current collection.
DeclaredAt(key) ==
    { p \in 1..Len(yaml_assistants) :
        Keyed(yaml_assistants[p]) /\ IdentityKey(yaml_assistants[p]) = key }
LiveAt(key) ==
    { p \in 1..Len(current_assistants) :
        /\ Live(current_assistants[p])
        /\ Keyed(current_assistants[p])
        /\ IdentityKey(current_assistants[p]) = key }

First(S) == CHOOSE p \in S : \A q \in S : p <= q
Last(S) == CHOOSE p \in S : \A q \in S : q <= p

\* The new records of the updated pairs.
UpdatedNew == [ i \in 1..Len(changes.updated) |-> changes.updated[i].new ]

\* The entries of a group stand as their records stand in a collection: of
\* two entries, the record of the earlier one is found in the collection
\* before the record of the later one.
InOrderOf(group, assistants) ==
    \A i, j \in 1..Len(group) :
        i < j => \E p, q \in 1..Len(assistants) :
                    p < q /\ assistants[p] = group[i] /\ assistants[q] = group[j]

\* C19, as stated: the entries of the new, updated and unchanged groups
\* stand in the order in which their records stand in the declared
\* collection, also when a key is declared more than once.
C19_GroupsInDeclarationOrder ==
    Detected =>
        /\ InOrderOf(changes.new, yaml_assistants)
        /\ InOrderOf(UpdatedNew, yaml_assistants)
        /\ InOrderOf(changes.unchanged, yaml_assistants)

\* The entries of a group are the last records of their keys and stand in
\* the order of the first places of their keys.
ByFirstPlace(group, assistants, At(_)) ==
    /\ \A i \in 1..Len(group) :
          group[i] = assistants[Last(At(IdentityKey(group[i])))]
    /\ \A i, j \in 1..Len(group) :
          i < j => First(At(IdentityKey(group[i]))) < First(At(IdentityKey(group[j])))

\* C19, amended: the entries of the new, updated and unchanged groups stand
\* in the order in which their identity keys first occur in the declared
\* collection, and those of the deleted group in the order in which their
\* keys first occur among the live records of the current collection; the
\* record of an entry is the last one with its key. Where no key occurs
\* twice this is declaration order.
C19_GroupsInFirstOccurrenceOrder ==
    Detected =>
        /\ ByFirstPlace(changes.new, yaml_assistants, DeclaredAt)
        /\ ByFirstPlace(UpdatedNew, yaml_assistants, DeclaredAt)
        /\ ByFirstPlace(changes.unchanged, yaml_assistants, DeclaredAt)
        /\ ByFirstPlace(changes.deleted, current_assistants, LiveAt)

\* "A" is declared twice around "B" and both are new: the entry of "A", its
\* last record, stands before the entry of "B".
C19_Witness ==
    /\ Detected
    /\ Len(yaml_assistants) = 3
    /\ IdentityKey(yaml_assistants[1]) = "A"
    /\ IdentityKey(yaml_assistants[2]) = "B"
    /\ IdentityKey(yaml_assistants[3]) = "A"
    /\ yaml_assistants[1] # yaml_assistants[3]
    /\ changes.new = << yaml_assistants[3], yaml_assistants[2] >>

-----------------------------------------------------------------------------
(* C20 *)

\* C20: every update operation of the plan, the deactivation of an updated
\* pair and the soft-delete of a deleted record alike, has a target id that
\* is set and is the id of a live record of the fetched current collection.
C20_UpdatesTargetLiveRecords ==
    Planned =>
        \A j \in 1..Len(operations) :
            operations[j].action = "update" =>
                /\ operations[j].id # None
                /\ \E i \in 1..Len(current_assistants) :
                      /\ Live(current_assistants[i])
                      /\ "id" \in DOMAIN current_assistants[i]
                      /\ current_assistants[i].id = operations[j].id

-----------------------------------------------------------------------------
(* C17 *)

\* A collection without its records that have no identity key.
WithoutKeyless(assistants) == SelectSeq(assistants, Keyed)

\* The records of the four groups (of an updated pair: both records).
GroupRecords ==
    Range(changes.new) \cup Range(changes.unchanged) \cup Range(changes.deleted)
    \cup { changes.updated[i].old : i \in 1..Len(changes.updated) }
    \cup { changes.updated[i].new : i \in 1..Len(changes.updated) }

\* C17: a record with neither a name nor an id, declared or persisted, does
\* not make the diff fail and is in none of the four groups; the groups, and
\* so the plan made from them, are what they would be if the declared and
\* the current collection did not hold such records.
C17_KeylessRecordsSkipped ==
    Detected =>
        /\ \A r \in GroupRecords : Keyed(r)
        /\ changes = detect_changes(WithoutKeyless(yaml_assistants),
                                    WithoutKeyless(current_assistants))
        /\ \A j \in 1..Len(PlanOperations(changes)) :
              PlanOperations(changes)[j].action = "insert"
                  => Keyed(PlanOperations(changes)[j].data)

\* Both collections held a record without a key between two records with
\* keys: "A" was found unchanged, "B" new and "C" deleted, as without them.
C17_Witness ==
    /\ Detected
    /\ Len(yaml_assistants) = 3 /\ ~Keyed(yaml_assistants[2])
    /\ Len(current_assistants) = 3 /\ ~Keyed(current_assistants[2])
    /\ Live(current_assistants[2])
    /\ KeysOf(changes.unchanged) = { "A" }
    /\ KeysOf(changes.new) = { "B" }
    /\ KeysOf(changes.deleted) = { "C" }
    /\ Len(PlanOperations(changes)) = 2

-----------------------------------------------------------------------------
(* C21 *)

\* A store holds at most one live record per identity key.
UniqueLive(store) ==
    \A i, j \in 1..Len(store) :
        ( /\ i # j
          /\ Live(store[i]) /\ Keyed(store[i])
          /\ Live(store[j]) /\ Keyed(store[j]) )
            => IdentityKey(store[i]) # IdentityKey(store[j])

\* C21: a successful run (the store's records were fetched, the batch was
\* accepted and applied) that starts on a store with at most one live record
\* per identity key leaves a store with at most one live record per
\* identity key, whatever was declared; so the same holds after any number
\* of such runs, one after another.
C21_OneLiveRecordPerKey ==
    [][ ( /\ pc = "sync" /\ pc' = "exit" /\ success'
          /\ requests[1].ok
          /\ current_assistants = remote
          /\ UniqueLive(remote) )
            => UniqueLive(remote') ]_vars

=============================================================================
